---- MODULE Spec2Model ----
(***************************************************************************)
(* Model of message_ix_models.tools.exo_data (the registry of sources of   *)
(* exogenous data, the DemoSource provider and prepare_computer) and of    *)
(* the cooling-fraction computation of                                     *)
(* message_ix_models.model.water.data.water_for_ppl.cool_tech.             *)
(*                                                                         *)
(* Python strings that the code inspects (str.startswith, str.partition,  *)
(* str.lower) are tuples of one-character strings, so that these          *)
(* operations are computed and not tabulated.  Identifiers that the code  *)
(* only compares or stores are TLA+ strings.                              *)
(***************************************************************************)
EXTENDS Integers, Sequences, FiniteSets, TLC

VARIABLES
    SOURCES,    \* exo_data.SOURCES: the dict, as a tuple of <<id, class>> in insertion order
    c,          \* the genno.Computer handed to prepare_computer: key -> task
    last,       \* the outcome of the last call: what it returned or raised
    steps,      \* number of calls made so far (bounded by MaxSteps)
    scen_input, \* the "input" parameter of the scenario cool_tech reads: a tuple of rows
    results,    \* what the last call of cool_tech computed
    context,    \* cool_tech: the horizon info.Y and nexus_set of the context
    scen_hist   \* the historical_activity and historical_new_capacity rows of the scenario

vars == <<SOURCES, c, last, steps, scen_input, results, context, scen_hist>>

exoVars == <<SOURCES, c, last, steps>>
coolVars == <<scen_input, results, context, scen_hist>>

----------------------------------------------------------------------------
(* Bounds of the model *)

\* Number of rows of the scenario's "input" parameter.
MaxRows == 2
\* The "input" rows of 2010 and the rows of each history parameter
MaxRows2010 == 4
MaxHist == 1

\* Number of calls (register_source, prepare_computer, c.add by the caller,
\* constructor and provider calls) in one behaviour.
MaxSteps == 3

----------------------------------------------------------------------------
(* Strings *)

S_test_ == <<"t", "e", "s", "t", " ">>
S_test == <<"t", "e", "s", "t">>
S_test_s1 == <<"t", "e", "s", "t", " ", "s", "1">>
S_test_s9 == <<"t", "e", "s", "t", " ", "s", "9">>
S_test_test_s1 == <<"t", "e", "s", "t", " ", "t", "e", "s", "t", " ", "s", "1">>
S_ssp_test_s1 == <<"s", "s", "p", " ", "t", "e", "s", "t", " ", "s", "1">>
S_GDP == <<"G", "D", "P">>
S_POP == <<"P", "O", "P">>
S_gdp == <<"g", "d", "p">>
S_pop == <<"p", "o", "p">>
S_UNKNOWN == <<"U", "N", "K", "N", "O", "W", "N">>
S_unknown == <<"u", "n", "k", "n", "o", "w", "n">>
S_Foo == <<"F", "o", "o">>
S_foo == <<"f", "o", "o">>
S_empty == <<>>

\* str.startswith
StartsWith(s, prefix) ==
    /\ Len(s) >= Len(prefix)
    /\ SubSeq(s, 1, Len(prefix)) = prefix

\* Positions at which sep occurs in s
Occurrences(s, sep) ==
    {i \in 1..(Len(s) - Len(sep) + 1) : SubSeq(s, i, i + Len(sep) - 1) = sep}

\* str.partition: split at the first occurrence of sep
Partition(s, sep) ==
    IF Occurrences(s, sep) = {}
    THEN <<s, <<>>, <<>>>>
    ELSE LET i == CHOOSE j \in Occurrences(s, sep) :
                      \A k \in Occurrences(s, sep) : j <= k
         IN <<SubSeq(s, 1, i - 1), sep, SubSeq(s, i + Len(sep), Len(s))>>

UpperCase == <<"A", "B", "C", "D", "E", "F", "G", "H", "I", "J", "K", "L", "M",
               "N", "O", "P", "Q", "R", "S", "T", "U", "V", "W", "X", "Y", "Z">>
LowerCase == <<"a", "b", "c", "d", "e", "f", "g", "h", "i", "j", "k", "l", "m",
               "n", "o", "p", "q", "r", "s", "t", "u", "v", "w", "x", "y", "z">>

LowerChar(ch) ==
    IF \E i \in 1..Len(UpperCase) : UpperCase[i] = ch
    THEN LowerCase[CHOOSE i \in 1..Len(UpperCase) : UpperCase[i] = ch]
    ELSE ch

\* str.lower
Lower(s) == [i \in 1..Len(s) |-> LowerChar(s[i])]

----------------------------------------------------------------------------
(* exo_data: module constants *)

MEASURES == {S_GDP, S_POP}

\* A dict with no entries, and source_kw dicts
EmptyDict == <<>>
Kw(m) == [measure |-> m]

NoObj == [cls |-> "None", id |-> "", indexers |-> EmptyDict]

----------------------------------------------------------------------------
(* exo_data: providers *)

\* The classes that may be handed to register_source: DemoSource, and
\* implementations of the ExoDataSource interface, whose constructor either
\* accepts its arguments or raises.  Each is <<class, id, constructor>>.
ClassTable ==
    { <<"DemoSource", "DEMO", "demo">>,
      <<"OtherDemo", "DEMO", "accept">>,
      <<"AnySource", "ANY", "accept">>,
      <<"NoSource", "NO", "reject">> }

Classes == {e[1] : e \in ClassTable}
ClassEntry(cls) == CHOOSE e \in ClassTable : e[1] = cls
\* cls.id
IdOf(cls) == ClassEntry(cls)[2]
CtorKind(cls) == ClassEntry(cls)[3]

Ok(obj) == [exc |-> "None", obj |-> obj]
Raise(e) == [exc |-> e, obj |-> NoObj]

\* dict lookup {"POP": "Population", "GDP": "GDP"}[m]
VariableOf(m) == IF m = S_POP THEN "Population" ELSE "GDP"

\* DemoSource.__init__ with a default for measures it does not know
DemoInit_anyMeasure(source, source_kw) ==
    IF ~StartsWith(source, S_test_)
    THEN Raise("ValueError")
    ELSE Ok([cls |-> "DemoSource", id |-> "DEMO",
             indexers |-> [s |-> Partition(source, S_test_)[3],
                           v |-> IF "measure" \in DOMAIN source_kw
                                 THEN VariableOf(source_kw["measure"])
                                 ELSE "GDP"]])

\* DemoSource.__init__
DemoInit(source, source_kw) ==
    IF ~StartsWith(source, S_test_)
    THEN Raise("ValueError")
    ELSE LET scenario == Partition(source, S_test_)[3]
         IN IF "measure" \notin DOMAIN source_kw
            THEN Raise("KeyError")            \* source_kw["measure"]
            ELSE IF source_kw["measure"] \notin {S_POP, S_GDP}
                 THEN Raise("KeyError")       \* {...}[source_kw["measure"]]
                 ELSE Ok([cls |-> "DemoSource", id |-> "DEMO",
                          indexers |-> [s |-> scenario,
                                        v |-> VariableOf(source_kw["measure"])]])

\* cls(source, source_kw)
Ctor(cls, source, source_kw) ==
    CASE CtorKind(cls) = "demo" -> DemoInit(source, source_kw)
      [] CtorKind(cls) = "accept" ->
            Ok([cls |-> cls, id |-> IdOf(cls), indexers |-> EmptyDict])
      [] OTHER -> Raise("ValueError")         \* ExoDataSource.__init__

\* DemoSource.random_data: dimensions and, after relabel, their labels
RandomDims == {"n", "y", "s", "v"}
RandomCoords ==
    [n |-> {"ABW", "AFG"},
     y |-> {2010, 2050},
     s |-> {<<"s", "0">>, <<"s", "1">>, <<"s", "2">>, <<"s", "3">>, <<"s", "4">>},
     v |-> {"Population", "GDP"}]

\* select with drop=False: the selected dimensions stay, with one label each
Select_keep(dims, coords, indexers) ==
    IF \E d \in DOMAIN indexers : d \notin dims \/ indexers[d] \notin coords[d]
    THEN [exc |-> "KeyError", dims |-> {}]
    ELSE [exc |-> "None", dims |-> dims]

\* genno.computations.select(qty, indexers, drop=True) with scalar indexers:
\* a label that is not a coordinate raises, a selected dimension is dropped.
Select(dims, coords, indexers) ==
    IF \E d \in DOMAIN indexers : d \notin dims \/ indexers[d] \notin coords[d]
    THEN [exc |-> "KeyError", dims |-> {}]
    ELSE [exc |-> "None", dims |-> dims \ DOMAIN indexers]

\* DemoSource.__call__
DemoCall(obj) == Select(RandomDims, RandomCoords, obj.indexers)

----------------------------------------------------------------------------
(* exo_data: keys and tasks of the Computer *)

\* genno.Key(name, dims); the tag is the tuple of its "+"-joined parts
Key(name, dims) == [name |-> name, dims |-> dims, tag |-> <<>>]
\* key + tag
AddTag(k, t) == [k EXCEPT !.tag = Append(@, t)]

K_n_codes == [name |-> <<"n">>, dims |-> <<>>, tag |-> <<"codes">>]
K_n_groups == [name |-> <<"n">>, dims |-> <<>>, tag |-> <<"groups">>]
K_y == [name |-> <<"y">>, dims |-> <<>>, tag |-> <<>>]
K_y0 == [name |-> <<"y", "0">>, dims |-> <<>>, tag |-> <<>>]
K_y_coords == [name |-> <<"y">>, dims |-> <<>>, tag |-> <<"coords">>]
K_y0_coord == [name |-> <<"y", "0">>, dims |-> <<>>, tag |-> <<"coord">>]

Task(op, deps) == [op |-> op, deps |-> deps, obj |-> NoObj]
ProviderTask(obj) == [op |-> "source_obj", deps |-> <<>>, obj |-> obj]

\* c.add(key, task) without strict: the key is added or replaced
Put(graph, key, task) ==
    [k \in DOMAIN graph \cup {key} |-> IF k = key THEN task ELSE graph[k]]

\* c.add(key, task, strict=strict)
Add(graph, key, task, strict) ==
    IF strict /\ key \in DOMAIN graph
    THEN [exc |-> "KeyExistsError", c |-> graph]
    ELSE IF strict /\ \E i \in 1..Len(task.deps) : task.deps[i] \notin DOMAIN graph
         THEN [exc |-> "MissingKeyError", c |-> graph]
         ELSE [exc |-> "None", c |-> Put(graph, key, task)]

----------------------------------------------------------------------------
(* exo_data: the registry *)

\* The keys of SOURCES
SourceIds(srcs) == {srcs[i][1] : i \in 1..Len(srcs)}

\* SOURCES[id]
SourceAt(srcs, id) == srcs[CHOOSE i \in 1..Len(srcs) : srcs[i][1] = id][2]

\* SOURCES[id] = cls: a new key is added last, an existing key keeps its place
DictSet(srcs, id, cls) ==
    IF id \in SourceIds(srcs)
    THEN [i \in 1..Len(srcs) |-> IF srcs[i][1] = id THEN <<id, cls>> ELSE srcs[i]]
    ELSE Append(srcs, <<id, cls>>)

\* register_source without its test of cls.id: the assignment replaces the entry
register_source_overwrite(srcs, cls) ==
    [exc |-> "None", ret |-> cls, SOURCES |-> DictSet(srcs, IdOf(cls), cls)]

\* register_source(cls): the registry afterwards and what the call raised or returned
register_source(srcs, cls) ==
    IF IdOf(cls) \in SourceIds(srcs)
    THEN [exc |-> "ValueError", ret |-> "None", SOURCES |-> srcs]
    ELSE [exc |-> "None", ret |-> cls, SOURCES |-> DictSet(srcs, IdOf(cls), cls)]

\* The loop of prepare_computer over SOURCES.values(), from entry i on:
\* source_obj is replaced by every instance that can be constructed.
RECURSIVE LookupFrom(_, _, _, _, _)
LookupFrom(srcs, i, source_obj, source, source_kw) ==
    IF i > Len(srcs)
    THEN source_obj
    ELSE LET r == Ctor(srcs[i][2], source, source_kw)
         IN LookupFrom(srcs, i + 1,
                       IF r.exc = "None" THEN r.obj ELSE source_obj,
                       source, source_kw)

\* A loop that stops at the first class that accepts
Lookup_first(srcs, source, source_kw) ==
    LET acc == {i \in 1..Len(srcs) : Ctor(srcs[i][2], source, source_kw).exc = "None"}
    IN IF acc = {} THEN NoObj
       ELSE Ctor(srcs[CHOOSE i \in acc : \A j \in acc : i <= j][2], source, source_kw).obj

Lookup(srcs, source, source_kw) == LookupFrom(srcs, 1, NoObj, source, source_kw)

----------------------------------------------------------------------------
(* exo_data: prepare_computer *)

\* source_kw.get("measure")
GetMeasure(source_kw) ==
    IF "measure" \in DOMAIN source_kw THEN source_kw["measure"] ELSE S_empty

\* The walrus test: a missing or empty measure is falsy
MeasureOf(source_kw) ==
    IF GetMeasure(source_kw) # S_empty THEN GetMeasure(source_kw) ELSE S_UNKNOWN

\* log.warning is called
Warns(source_kw) ==
    GetMeasure(source_kw) # S_empty /\ GetMeasure(source_kw) \notin MEASURES

\* The key named by the measure as given, not lower-cased
MeasureKey_nolower(measure) == Key(measure, <<"n", "y">>)

\* k = Key(measure.lower(), "ny")
MeasureKey(measure) == Key(Lower(measure), <<"n", "y">>)
\* k_raw = k + source_obj.id
RawKey(measure, id) == AddTag(MeasureKey(measure), id)
IndexedKey(measure) == AddTag(MeasureKey(measure), "y0 indexed")

\* "y" and "y0" are added only if missing
AddPeriods(graph) ==
    LET g1 == IF K_y \notin DOMAIN graph
              THEN Put(graph, K_y, Task("quote", <<>>)) ELSE graph
    IN IF K_y0 \notin DOMAIN g1
       THEN Put(g1, K_y0, Task("itemgetter", <<K_y>>)) ELSE g1

\* "y::coords" and "y0::coord"
AddCoords(graph) ==
    Put(Put(graph, K_y_coords, Task("coords", <<K_y>>)),
        K_y0_coord, Task("coord", <<K_y0>>))

\* AddData with the interpolation computed from the raw data, not its aggregate
AddData_noagg(graph, measure, source_obj) ==
    LET k == Key(Lower(measure), <<"n", "y">>)
        k_raw == AddTag(k, source_obj.id)
        g1 == Put(graph, k_raw, ProviderTask(source_obj))
        g2 == Put(g1, AddTag(k_raw, "agg"),
                  Task("aggregate", <<k_raw, K_n_groups>>))
        g3 == Put(g2, k, Task("interpolate", <<k_raw, K_y_coords>>))
    IN Put(g3, AddTag(k, "y0 indexed"), Task("index_to", <<k, K_y0_coord>>))

\* The raw data, its aggregate, the interpolation and the index to y0
AddData(graph, measure, source_obj) ==
    LET k == MeasureKey(measure)
        k_raw == RawKey(measure, source_obj.id)
        g1 == Put(graph, k_raw, ProviderTask(source_obj))
        g2 == Put(g1, AddTag(k_raw, "agg"),
                  Task("aggregate", <<k_raw, K_n_groups>>))
        g3 == Put(g2, k, Task("interpolate", <<AddTag(k_raw, "agg"), K_y_coords>>))
    IN Put(g3, AddTag(k, "y0 indexed"), Task("index_to", <<k, K_y0_coord>>))

\* prepare_computer without its test of source_obj
NotFound_never(source_obj) == FALSE

\* if source_obj is None
NotFound(source_obj) == source_obj = NoObj

\* The keys returned
ReturnKeys(measure) == <<MeasureKey(measure), IndexedKey(measure)>>

\* prepare_computer(context, c, source, source_kw, strict=strict): the
\* Computer afterwards, the exception raised or "None", and the value returned
prepare_computer(srcs, graph, source, source_kw, strict) ==
    LET measure == MeasureOf(source_kw)
        source_obj == Lookup(srcs, source, source_kw)
        a1 == Add(graph, K_n_codes, Task("quote", <<>>), strict)
        a2 == Add(a1.c, K_n_groups, Task("codelist_to_groups", <<K_n_codes>>), strict)
    IN IF NotFound(source_obj)
       THEN [exc |-> "ValueError", c |-> graph, ret |-> <<>>, source_obj |-> NoObj]
       ELSE IF a1.exc # "None"
       THEN [exc |-> a1.exc, c |-> a1.c, ret |-> <<>>, source_obj |-> source_obj]
       ELSE IF a2.exc # "None"
       THEN [exc |-> a2.exc, c |-> a2.c, ret |-> <<>>, source_obj |-> source_obj]
       ELSE [exc |-> "None",
             c |-> AddData(AddCoords(AddPeriods(a2.c)), measure, source_obj),
             ret |-> ReturnKeys(measure),
             source_obj |-> source_obj]

----------------------------------------------------------------------------
(* water_for_ppl.cool_tech: numbers *)

\* Values are exact fractions [n, d] with d > 0.  As in floating point, a
\* division by zero gives an infinity, [1, 0] or [-1, 0], and 0 / 0 gives
\* NaN, [0, 0]; neither raises.
RECURSIVE Gcd(_, _)
Gcd(a, b) == IF b = 0 THEN a ELSE Gcd(b, a % b)
Abs(x) == IF x < 0 THEN -x ELSE x

Frac(n, d) ==
    IF d = 0 THEN [n |-> IF n > 0 THEN 1 ELSE IF n < 0 THEN -1 ELSE 0, d |-> 0]
    ELSE LET g == Gcd(Abs(n), Abs(d))
             sgn == IF d < 0 THEN -1 ELSE 1
         IN [n |-> sgn * (n \div g), d |-> sgn * (d \div g)]

IsNaN(a) == a.d = 0 /\ a.n = 0
IsFinite(a) == a.d # 0
\* The operands of *, - and / below are finite
FracMul(a, b) == Frac(a.n * b.n, a.d * b.d)
FracSub(a, b) == Frac(a.n * b.d - b.n * a.d, a.d * b.d)
FracDiv(a, b) == Frac(a.n * b.d, a.d * b.n)
FracGeq(a, b) == IsFinite(a) /\ IsFinite(b) /\ a.n * b.d >= b.n * a.d
FracGt(a, b) == IsFinite(a) /\ IsFinite(b) /\ a.n * b.d > b.n * a.d

F_one == Frac(1, 1)
F_zero == Frac(0, 1)
\* h_fg, the flue gas losses
F_tenth == Frac(1, 10)
F_nine_tenths == Frac(9, 10)
\* 60 * 60 * 24 * 365 * 1e-9
F_km3_per_GWa == Frac(60 * 60 * 24 * 365, 1000000000)

----------------------------------------------------------------------------
(* water_for_ppl.cool_tech: tables *)

T_coal_ppl == <<"c", "o", "a", "l", "_", "p", "p", "l">>
T_coal_ppl_u == <<"c", "o", "a", "l", "_", "p", "p", "l", "_", "u">>
T_geo_ppl == <<"g", "e", "o", "_", "p", "p", "l">>
T_geo_hpl == <<"g", "e", "o", "_", "h", "p", "l">>
S_hpl == <<"h", "p", "l">>
S_sep == <<"_", "_">>
S_ot_fresh == <<"o", "t", "_", "f", "r", "e", "s", "h">>
S_ot_saline == <<"o", "t", "_", "s", "a", "l", "i", "n", "e">>
S_air == <<"a", "i", "r">>

\* "in" and str.contains for strings
Contains(s, sub) == Occurrences(s, sub) # {}
\* str.endswith
EndsWith(s, suffix) ==
    /\ Len(s) >= Len(suffix)
    /\ SubSeq(s, Len(s) - Len(suffix) + 1, Len(s)) = suffix

\* The rows of tech_water_performance_ssp_msg.csv with technology_group
\* "cooling": parent__coolingtype, the water withdrawal and the parasitic
\* electricity demand
CoolingDf ==
    << [technology_name |-> T_coal_ppl \o S_sep \o S_ot_fresh,
        water_withdrawal |-> Frac(3, 1), parasitic |-> Frac(0, 1)],
       [technology_name |-> T_coal_ppl \o S_sep \o S_air,
        water_withdrawal |-> Frac(0, 1), parasitic |-> Frac(2, 100)],
       [technology_name |-> T_coal_ppl_u \o S_sep \o S_ot_fresh,
        water_withdrawal |-> Frac(4, 1), parasitic |-> Frac(0, 1)],
       [technology_name |-> T_geo_ppl \o S_sep \o S_ot_saline,
        water_withdrawal |-> Frac(5, 1), parasitic |-> Frac(0, 1)],
       [technology_name |-> T_geo_hpl \o S_sep \o S_ot_fresh,
        water_withdrawal |-> Frac(2, 1), parasitic |-> Frac(0, 1)] >>

\* cooling_df["parent_tech"]: the part of the name before "__"
ParentTech(technology_name) == Partition(technology_name, S_sep)[1]

ParentTechs == {ParentTech(CoolingDf[i].technology_name) : i \in 1..Len(CoolingDf)}

\* missing_tech.data_dic; nuc_hc, nuc_lc and solar_th_ppl are not among
\* the technologies of CoolingDf
DataDic ==
    [t \in {T_geo_hpl, T_geo_ppl} |->
        IF t = T_geo_hpl THEN Frac(1000, 850) ELSE Frac(1000, 385)]

\* missing_tech(x): the value and level of a row of ref_input
missing_tech(x) ==
    IF x.technology \in DOMAIN DataDic
    THEN IF x.level = "cooling"
         THEN [x EXCEPT !.value = DataDic[x.technology], !.level = "dummy_supply"]
         ELSE [x EXCEPT !.value = DataDic[x.technology]]
    ELSE x

\* ref_input["cooling_fraction"] = ref_input["value"] * 0.9 - 1
RefCoolingFraction(value) == FracSub(FracMul(value, F_nine_tenths), F_one)

\* cooling_fr without the flue gas losses, for every technology
cooling_fr_nolosses(x) == FracSub(x.value, F_one)

\* cooling_fr(x)
cooling_fr(x) ==
    IF Contains(x.index, S_hpl)
    THEN FracSub(x.value, F_one)
    ELSE FracSub(FracSub(x.value, FracMul(x.value, F_tenth)), F_one)

\* Flatten a tuple of tuples
RECURSIVE Concat(_)
Concat(ss) == IF ss = <<>> THEN <<>> ELSE Head(ss) \o Concat(Tail(ss))

\* scen.par("input", {"technology": cooling_df["parent_tech"]}), with the
\* cooling fraction of line 90 and the values of missing_tech
RefInput(input) ==
    LET IsParent(r) == r.technology \in ParentTechs
        sel == SelectSeq(input, IsParent)
    IN [i \in 1..Len(sel) |->
          missing_tech([technology |-> sel[i].technology,
                        node_loc |-> sel[i].node_loc,
                        year_vtg |-> sel[i].year_vtg,
                        year_act |-> sel[i].year_act,
                        value |-> sel[i].value,
                        level |-> sel[i].level,
                        cooling_fraction |-> RefCoolingFraction(sel[i].value)])]

\* cooling_df and ref_input combined on the parent technology: each cooling
\* technology with each input row of its parent, or alone, without a
\* value, when the parent has none
Combine(ref_input) ==
    Concat([i \in 1..Len(CoolingDf) |->
        LET cd == CoolingDf[i]
            Mine(r) == r.technology = ParentTech(cd.technology_name)
            mine == SelectSeq(ref_input, Mine)
        IN IF mine = <<>>
           THEN << [index |-> ParentTech(cd.technology_name),
                    technology_name |-> cd.technology_name,
                    water_withdrawal |-> cd.water_withdrawal,
                    parasitic |-> cd.parasitic,
                    node_loc |-> "nan", year_vtg |-> 0, year_act |-> 0,
                    value |-> Frac(0, 0), level |-> "nan",
                    cooling_fraction |-> Frac(0, 0)] >>
           ELSE [j \in 1..Len(mine) |->
                   [index |-> ParentTech(cd.technology_name),
                    technology_name |-> cd.technology_name,
                    water_withdrawal |-> cd.water_withdrawal,
                    parasitic |-> cd.parasitic,
                    node_loc |-> mine[j].node_loc,
                    year_vtg |-> mine[j].year_vtg,
                    year_act |-> mine[j].year_act,
                    value |-> mine[j].value, level |-> mine[j].level,
                    cooling_fraction |-> mine[j].cooling_fraction]]])

\* The filters without the one on "hpl"
KeptRows_nohpl(input_cool) ==
    LET HasValue(r) == ~IsNaN(r.value)
        LevelOk(r) == r.level # "water_supply" /\ r.level # "cooling"
    IN SelectSeq(SelectSeq(input_cool, HasValue), LevelOk)

\* dropna on value, the filter on level and the filter on "hpl"
KeptRows(input_cool) ==
    LET HasValue(r) == ~IsNaN(r.value)
        LevelOk(r) == r.level # "water_supply" /\ r.level # "cooling"
        NotHpl(r) == ~Contains(r.technology_name, S_hpl)
    IN SelectSeq(SelectSeq(SelectSeq(input_cool, HasValue), LevelOk), NotHpl)

\* input_cool with cooling_fraction and value_cool computed
InputCool(input) ==
    LET kept == KeptRows(Combine(RefInput(input)))
    IN [i \in 1..Len(kept) |->
          LET cf == cooling_fr(kept[i])
          IN [index |-> kept[i].index,
              technology_name |-> kept[i].technology_name,
              water_withdrawal |-> kept[i].water_withdrawal,
              parasitic |-> kept[i].parasitic,
              node_loc |-> kept[i].node_loc,
              year_vtg |-> kept[i].year_vtg,
              year_act |-> kept[i].year_act,
              value |-> kept[i].value,
              level |-> kept[i].level,
              cooling_fraction |-> cf,
              value_cool |-> FracDiv(FracMul(kept[i].water_withdrawal,
                                             F_km3_per_GWa), cf)]]

\* results["input"]: electricity for the technologies with a parasitic
\* demand, fresh water for those that are neither saline nor air, saline
\* water for the saline ones; rows without a value are dropped
InputTable(input_cool) ==
    LET IsElectr(r) == FracGt(r.parasitic, F_zero)
        IsSaline(r) == EndsWith(r.technology_name, S_ot_saline)
        IsFresh(r) == ~EndsWith(r.technology_name, S_ot_saline)
                      /\ ~EndsWith(r.technology_name, S_air)
        electr == SelectSeq(input_cool, IsElectr)
        icmse == SelectSeq(input_cool, IsFresh)
        saline == SelectSeq(input_cool, IsSaline)
        all ==
            [i \in 1..Len(electr) |->
                [technology |-> electr[i].technology_name, commodity |-> "electr",
                 divisor |-> electr[i].cooling_fraction,
                 value |-> FracDiv(electr[i].parasitic, electr[i].cooling_fraction)]]
            \o [i \in 1..Len(icmse) |->
                [technology |-> icmse[i].technology_name,
                 commodity |-> "freshwater_supply",
                 divisor |-> icmse[i].cooling_fraction,
                 value |-> icmse[i].value_cool]]
            \o [i \in 1..Len(saline) |->
                [technology |-> saline[i].technology_name,
                 commodity |-> "saline_supply_ppl",
                 divisor |-> saline[i].cooling_fraction,
                 value |-> saline[i].value_cool]]
        NotNull(r) == ~IsNaN(r.value)
    IN SelectSeq(all, NotNull)

\* results["addon_conversion"]
AddonConversion(input_cool) ==
    [i \in 1..Len(input_cool) |->
        [technology |-> input_cool[i].index,
         type_addon |-> <<"c", "o", "o", "l", "i", "n", "g", "_", "_">>
                        \o input_cool[i].index,
         parent_value |-> input_cool[i].value,
         value |-> input_cool[i].cooling_fraction]]

NoResults == [called |-> FALSE, input_cool |-> <<>>, input |-> <<>>,
              addon_conversion |-> <<>>, exc |-> "none",
              historical_activity |-> <<>>, historical_new_capacity |-> <<>>,
              horizon |-> <<>>, inv_cost_years |-> {}, tl_years |-> {},
              output_present |-> FALSE, output_years |-> {}]

\* The elements of a tuple
Range(seq) == {seq[i] : i \in 1..Len(seq)}


\* The region columns of the cost and shares file
Nodes == <<"R11_AFR", "R11_CPA">>

\* The rows of cooltech_cost_and_shares_*.csv: technology = utype + "__" +
\* cooling, and the share of the cooling technology in each region
CostDf ==
    << [technology |-> T_coal_ppl \o S_sep \o S_ot_fresh,
        share |-> (Nodes[1] :> Frac(1, 2)) @@ (Nodes[2] :> Frac(1, 4))],
       [technology |-> T_coal_ppl \o S_sep \o S_air,
        share |-> (Nodes[1] :> Frac(1, 2)) @@ (Nodes[2] :> Frac(3, 4))],
       [technology |-> T_coal_ppl_u \o S_sep \o S_ot_fresh,
        share |-> (Nodes[1] :> Frac(1, 1)) @@ (Nodes[2] :> Frac(1, 1))],
       [technology |-> T_geo_ppl \o S_sep \o S_ot_saline,
        share |-> (Nodes[1] :> Frac(1, 1)) @@ (Nodes[2] :> Frac(1, 1))] >>
CostTechnologies == {CostDf[i].technology : i \in 1..Len(CostDf)}

\* year = info.Y; 2010 is put in front if it is missing
YearWith2010(Y) == IF 2010 \in Range(Y) THEN Y ELSE <<2010>> \o Y

\* info.Y as read after year.insert(0, 2010): the list `year` itself if
\* info.Y hands out the list it keeps, the horizon unchanged if every read
\* of info.Y builds a new list
YearsAfterCall(ctx) == IF ctx.shared THEN YearWith2010(ctx.Y) ELSE ctx.Y

\* The year_vtg of inv_cost, of technical_lifetime and of output
cool_tech_years(inp, ctx) ==
    [horizon |-> ctx.Y,
     \* broadcast(year_vtg=info.Y), before `year` is changed
     inv_cost_years |-> IF CostTechnologies = {} THEN {} ELSE Range(ctx.Y),
     \* one row per technology of inp and year of `year`
     tl_years |-> IF inp = <<>> THEN {}
                  ELSE Range(YearWith2010(ctx.Y)),
     output_present |-> ctx.nexus_set \in {"cooling", "nexus"},
     output_years |-> IF ctx.nexus_set \in {"cooling", "nexus"}
                      THEN Range(YearsAfterCall(ctx)) ELSE {}]

\* The horizons, nexus_set values and contexts cool_tech is called with
Horizons == {<<2010>>, <<2020>>, <<2010, 2020>>, <<2020, 2030>>,
             <<2010, 2020, 2030>>, <<2020, 2030, 2050>>, <<2010, 2020, 2030, 2050>>}
NexusSets == {"cooling", "nexus", "none"}
DefaultContext == [Y |-> <<2020, 2030>>, shared |-> FALSE, nexus_set |-> "cooling"]
\* The first year of that horizon
Horizon0 == DefaultContext.Y[1]
NoHistory == [act |-> <<>>, cap |-> <<>>]

\* hold_df: node, technology and cooling fraction of the rows of input_cool
\* with year_act = year_vtg = 2010, without duplicates
HoldDf(input_cool) ==
    {[node_loc |-> input_cool[i].node_loc,
      technology_name |-> input_cool[i].technology_name,
      cooling_fraction |-> input_cool[i].cooling_fraction] :
        i \in {j \in 1..Len(input_cool) :
                 input_cool[j].year_act = 2010 /\ input_cool[j].year_vtg = 2010}}

\* The series hold_df[node_loc == col & technology_name == technology]
\* ["cooling_fraction"]
CoolingFractionOf(hold_df, col, technology) ==
    {h.cooling_fraction : h \in {g \in hold_df : /\ g.node_loc = col
                                                 /\ g.technology_name = technology}}

\* shares(x, context), the loop over the elements of the row: an empty
\* series gives the row "delme", float() of a series of several values
\* raises TypeError, and a row that has one cooling fraction in every
\* region is kept
RECURSIVE SharesOutcome(_, _, _)
SharesOutcome(hold_df, technology, cols) ==
    IF cols = <<>> THEN "keep"
    ELSE LET i == CoolingFractionOf(hold_df, Head(cols), technology)
         IN IF i = {} THEN "delme"
            ELSE IF Cardinality(i) > 1 THEN "TypeError"
            ELSE SharesOutcome(hold_df, technology, Tail(cols))

\* shares(x, context) of a row that is kept: share * cooling_fraction in
\* every region
shares(hold_df, x) ==
    [technology |-> x.technology,
     value |-> [col \in Range(Nodes) |->
                  LET i == CoolingFractionOf(hold_df, col, x.technology)
                  IN FracMul(x.share[col], CHOOSE f \in i : TRUE)]]

\* cost.apply(shares) raises if a row does
SharesRaises(hold_df) ==
    \E i \in 1..Len(CostDf) :
        SharesOutcome(hold_df, CostDf[i].technology, Nodes) = "TypeError"

\* hold_cost: the rows of cost through shares, without the "delme" rows
HoldCost(hold_df) ==
    LET Kept(x) == SharesOutcome(hold_df, x.technology, Nodes) = "keep"
        kept == SelectSeq(CostDf, Kept)
    IN [i \in 1..Len(kept) |-> shares(hold_df, kept[i])]

\* hist_act(x, context): the rows of hold_cost whose technology starts with
\* the technology of x, each with its value in the region of x times the
\* historical value
hist_act(hold_cost, x) ==
    LET Mine(r) == StartsWith(r.technology, x.technology)
        tech_df == SelectSeq(hold_cost, Mine)
    IN [i \in 1..Len(tech_df) |->
          [node_loc |-> x.node_loc, technology |-> tech_df[i].technology,
           year_act |-> x.year, value |-> FracMul(tech_df[i].value[x.node_loc], x.value)]]

\* hist_cap(x, context)
hist_cap(hold_cost, x) ==
    LET Mine(r) == StartsWith(r.technology, x.technology)
        tech_df == SelectSeq(hold_cost, Mine)
    IN [i \in 1..Len(tech_df) |->
          [node_loc |-> x.node_loc, technology |-> tech_df[i].technology,
           year_vtg |-> x.year, value |-> FracMul(tech_df[i].value[x.node_loc], x.value)]]

\* scen.par(name, {"technology": cooling_df["parent_tech"]})
RefHist(rows) ==
    LET IsParent(r) == r.technology \in ParentTechs
    IN SelectSeq(rows, IsParent)

\* results["historical_activity"] and results["historical_new_capacity"]
HistTables(hold_cost, ref_hist_act, ref_hist_cap) ==
    [historical_activity |->
        Concat([i \in 1..Len(ref_hist_act) |-> hist_act(hold_cost, ref_hist_act[i])]),
     historical_new_capacity |->
        Concat([i \in 1..Len(ref_hist_cap) |-> hist_cap(hold_cost, ref_hist_cap[i])])]

\* cool_tech(context): the tables computed from the scenario
Tables(input_cool, inp, hold_df, hist, ctx) ==
    IF SharesRaises(hold_df)
    THEN [NoResults EXCEPT !.called = TRUE, !.exc = "TypeError", !.horizon = ctx.Y]
    ELSE [called |-> TRUE, exc |-> "none",
          input_cool |-> input_cool,
          input |-> inp,
          addon_conversion |-> AddonConversion(input_cool)]
         @@ HistTables(HoldCost(hold_df), RefHist(hist.act), RefHist(hist.cap))
         @@ cool_tech_years(inp, ctx)

\* cool_tech(context), from input_cool on
FromInputCool(input_cool, hist, ctx) ==
    Tables(input_cool, InputTable(input_cool), HoldDf(input_cool), hist, ctx)

cool_tech(input, hist, ctx) == FromInputCool(InputCool(input), hist, ctx)

\* Rows of the scenario's "input" parameter
InputRow(technology, value, level, node_loc, year_vtg, year_act) ==
    [technology |-> technology, value |-> value, level |-> level,
     node_loc |-> node_loc, year_vtg |-> year_vtg, year_act |-> year_act]
ScenTechnologies == {T_coal_ppl, T_geo_ppl, T_geo_hpl}
ScenValues == {Frac(9, 9), Frac(10, 9), Frac(18, 9)}
ScenLevels == {"secondary", "cooling", "water_supply"}

\* The scenario gains a row of "input"
ScenAddInput(technology, value, level) ==
    /\ Len(scen_input) < MaxRows
    /\ scen_input' = Append(scen_input, InputRow(technology, value, level,
                                                 Nodes[1], Horizon0, Horizon0))
    /\ results' = NoResults
    /\ UNCHANGED <<exoVars, context, scen_hist>>

\* cool_tech(context)
CoolTech ==
    /\ results' = cool_tech(scen_input, scen_hist, context)
    /\ context' = IF results'.exc = "none"
                  THEN [context EXCEPT !.Y = YearsAfterCall(context)]
                  ELSE context
    /\ UNCHANGED <<scen_input, scen_hist, exoVars>>

\* The "input" rows of the year 2010 a scenario can hold: the coal plants
\* in both regions, and coal_ppl with a second value in the first region
Rows2010 ==
    {InputRow(t, Frac(18, 9), "secondary", n, 2010, 2010) :
        t \in {T_coal_ppl, T_coal_ppl_u}, n \in Range(Nodes)}
    \cup {InputRow(T_coal_ppl, Frac(27, 9), "secondary", Nodes[1], 2010, 2010)}

\* The scenario gains an "input" row of the year 2010
ScenAddInput2010(row) ==
    /\ Len(scen_input) < MaxRows2010
    /\ scen_input' = Append(scen_input, row)
    /\ results' = NoResults
    /\ UNCHANGED <<exoVars, context, scen_hist>>

\* The scenario gains a row of historical_activity ("act") or of
\* historical_new_capacity ("cap") of a parent technology
ScenAddHistory(name, technology, node_loc) ==
    /\ Len(scen_hist[name]) < MaxHist
    /\ scen_hist' = [scen_hist EXCEPT ![name] =
                        Append(@, [technology |-> technology, node_loc |-> node_loc,
                                   year |-> 2010, value |-> Frac(4, 1)])]
    /\ results' = NoResults
    /\ UNCHANGED <<exoVars, context, scen_input>>

\* The caller sets context["water build info"] and context.nexus_set
SetContext(Y, shared, nexus_set) ==
    /\ context' = [Y |-> Y, shared |-> shared, nexus_set |-> nexus_set]
    /\ context' # context
    /\ results' = NoResults
    /\ UNCHANGED <<scen_input, scen_hist, exoVars>>

\* The scenario gains an "input" row of a power plant that is cooled
ScenAddPlant ==
    /\ Len(scen_input) < MaxRows
    /\ scen_input' = Append(scen_input, InputRow(T_coal_ppl, Frac(18, 9), "secondary",
                                                 Nodes[1], Horizon0, Horizon0))
    /\ results' = NoResults
    /\ UNCHANGED <<exoVars, context, scen_hist>>

----------------------------------------------------------------------------
(* Inputs *)

SourceArgs == {S_test_s1, S_test_s9, S_test, S_ssp_test_s1, S_test_test_s1}
KwArgs == {EmptyDict, Kw(S_GDP), Kw(S_POP), Kw(S_Foo), Kw(S_empty)}

\* Keys the owner of the Computer may have added before prepare_computer runs
CallerKeys == {K_n_codes, K_y, K_y_coords, MeasureKey(S_GDP)}

----------------------------------------------------------------------------
(* Actions *)

\* register_source(cls), also as the decorator of DemoSource
RegisterSource(cls) ==
    /\ steps < MaxSteps
    /\ LET r == register_source(SOURCES, cls)
       IN /\ SOURCES' = r.SOURCES
          /\ last' = [op |-> "register_source", cls |-> cls,
                      exc |-> r.exc, ret |-> r.ret]
    /\ steps' = steps + 1
    /\ UNCHANGED <<c, coolVars>>

\* prepare_computer(context, c, source, source_kw, strict=strict)
PrepareComputer(source, source_kw, strict) ==
    /\ steps < MaxSteps
    /\ LET r == prepare_computer(SOURCES, c, source, source_kw, strict)
       IN /\ c' = r.c
          /\ last' = [op |-> "prepare_computer", source |-> source,
                      source_kw |-> source_kw, strict |-> strict,
                      before |-> DOMAIN c,
                      exc |-> r.exc, ret |-> r.ret, source_obj |-> r.source_obj,
                      warned |-> Warns(source_kw)]
    /\ steps' = steps + 1
    /\ UNCHANGED <<SOURCES, coolVars>>

\* The owner of the Computer adds a task of its own under key
CallerAdd(key) ==
    /\ steps < MaxSteps
    /\ c' = Put(c, key, Task("caller", <<>>))
    /\ last' = [op |-> "add", key |-> key]
    /\ steps' = steps + 1
    /\ UNCHANGED <<SOURCES, coolVars>>

\* DemoSource(source, source_kw), called directly
Construct(source, source_kw) ==
    /\ steps < MaxSteps
    /\ LET r == Ctor("DemoSource", source, source_kw)
       IN last' = [op |-> "init", source |-> source, source_kw |-> source_kw,
                   exc |-> r.exc, obj |-> r.obj]
    /\ steps' = steps + 1
    /\ UNCHANGED <<SOURCES, c, coolVars>>

\* The DemoSource instances at hand: in a task of c, or just constructed
Instances ==
    {c[k].obj : k \in {j \in DOMAIN c : c[j].obj.cls = "DemoSource"}}
    \cup (IF last.op = "init" /\ last.exc = "None" THEN {last.obj} ELSE {})

\* source_obj(): the provider is invoked
Invoke(obj) ==
    /\ steps < MaxSteps
    /\ LET r == DemoCall(obj)
       IN last' = [op |-> "call", obj |-> obj, exc |-> r.exc, dims |-> r.dims]
    /\ steps' = steps + 1
    /\ UNCHANGED <<SOURCES, c, coolVars>>

Init ==
    /\ SOURCES = <<>>
    /\ c = EmptyDict
    /\ last = [op |-> "import"]
    /\ steps = 0
    /\ scen_input = <<>>
    /\ results = NoResults
    /\ context = DefaultContext
    /\ scen_hist = NoHistory

Next ==
    \/ \E cls \in Classes : RegisterSource(cls)
    \/ \E source \in SourceArgs, source_kw \in KwArgs, strict \in BOOLEAN :
          PrepareComputer(source, source_kw, strict)
    \/ \E key \in CallerKeys : CallerAdd(key)
    \/ \E source \in SourceArgs, source_kw \in KwArgs : Construct(source, source_kw)
    \/ \E obj \in Instances : Invoke(obj)

Spec == Init /\ [][Next]_vars

NextCool ==
    \/ \E technology \in ScenTechnologies, value \in ScenValues, level \in ScenLevels :
          ScenAddInput(technology, value, level)
    \/ CoolTech

SpecCool == Init /\ [][NextCool]_vars

NextYears ==
    \/ \E Y \in Horizons, shared \in BOOLEAN, nexus_set \in NexusSets :
          SetContext(Y, shared, nexus_set)
    \/ ScenAddPlant
    \/ CoolTech

SpecYears == Init /\ [][NextYears]_vars

NextHist ==
    \/ \E row \in Rows2010 : ScenAddInput2010(row)
    \/ \E name \in {"act", "cap"}, technology \in {T_coal_ppl, T_coal_ppl_u},
          node_loc \in Range(Nodes) : ScenAddHistory(name, technology, node_loc)
    \/ CoolTech

SpecHist == Init /\ [][NextHist]_vars

----------------------------------------------------------------------------
(* Claims about the registry *)

\* The entries of SOURCES whose constructor accepts (source, source_kw)
Accepting(source, source_kw) ==
    {i \in 1..Len(SOURCES) : Ctor(SOURCES[i][2], source, source_kw).exc = "None"}

\* No two entries of srcs have the same id, and each class is filed under its own id
UniqueIds(srcs) ==
    /\ \A i, j \in 1..Len(srcs) : i # j => IdOf(srcs[i][2]) # IdOf(srcs[j][2])
    /\ \A i \in 1..Len(srcs) : srcs[i][1] = IdOf(srcs[i][2])

\* C1: across any sequence of register_source calls no two registered
\* providers share an identifier: a call whose cls.id is already a key of
\* SOURCES raises ValueError and leaves SOURCES unchanged, a call with a new
\* id adds exactly the entry id -> cls, after the others, and returns cls.
C1_RegisterUnique ==
    [][(steps' # steps /\ last'.op = "register_source") =>
          /\ UniqueIds(SOURCES')
          /\ IF IdOf(last'.cls) \in SourceIds(SOURCES)
             THEN /\ last'.exc = "ValueError"
                  /\ SOURCES' = SOURCES
             ELSE /\ last'.exc = "None"
                  /\ last'.ret = last'.cls
                  /\ SOURCES' = Append(SOURCES, <<IdOf(last'.cls), last'.cls>>)]_vars

\* C1 witness: OtherDemo was refused because DemoSource holds the id "DEMO"
C1_Witness ==
    /\ last.op = "register_source"
    /\ last.cls = "OtherDemo"
    /\ last.exc = "ValueError"
    /\ "DEMO" \in SourceIds(SOURCES)
    /\ SourceAt(SOURCES, "DEMO") = "DemoSource"

\* C2: prepare_computer raises ValueError whenever no class in SOURCES can
\* be instantiated with (source, source_kw), an empty SOURCES included, and
\* then leaves the Computer as it was.
C2_NoSourceRaises ==
    (last.op = "prepare_computer" /\ Accepting(last.source, last.source_kw) = {})
        => /\ last.exc = "ValueError"
           /\ DOMAIN c = last.before

\* C2 witness: the one registered constructor raised (here a KeyError, for
\* the missing measure) and prepare_computer raised ValueError
C2_Witness ==
    /\ last.op = "prepare_computer"
    /\ Len(SOURCES) > 0
    /\ Accepting(last.source, last.source_kw) = {}
    /\ \E i \in 1..Len(SOURCES) :
          Ctor(SOURCES[i][2], last.source, last.source_kw).exc = "KeyError"
    /\ last.exc = "ValueError"

\* C3: the provider of the raw-data task is an instance of a registered
\* class whose constructor accepted (source, source_kw); of several
\* accepting classes it is the last in registration order, whether or not
\* classes registered after it reject.
C3_LastAcceptingChosen ==
    (last.op = "prepare_computer" /\ last.exc = "None") =>
        LET acc == Accepting(last.source, last.source_kw)
            top == CHOOSE i \in acc : \A j \in acc : j <= i
            obj == Ctor(SOURCES[top][2], last.source, last.source_kw).obj
            k_raw == [name |-> Lower(MeasureOf(last.source_kw)),
                      dims |-> <<"n", "y">>, tag |-> <<SOURCES[top][1]>>]
        IN /\ acc # {}
           /\ last.source_obj = obj
           /\ k_raw \in DOMAIN c
           /\ c[k_raw].obj = obj

\* C3 witness: two registered classes accepted, a class registered after
\* the chosen one rejected
C3_Witness ==
    /\ last.op = "prepare_computer"
    /\ last.exc = "None"
    /\ Cardinality(Accepting(last.source, last.source_kw)) >= 1
    /\ Len(SOURCES) \notin Accepting(last.source, last.source_kw)
    /\ \E i \in Accepting(last.source, last.source_kw) :
          last.source_obj.cls = SOURCES[i][2] /\ i < Len(SOURCES)

\* C3 witness (second case): several classes accepted, the last one was chosen
C3_WitnessSeveral ==
    /\ last.op = "prepare_computer"
    /\ last.exc = "None"
    /\ Cardinality(Accepting(last.source, last.source_kw)) >= 2
    /\ last.source_obj.cls = SOURCES[Len(SOURCES)][2]

----------------------------------------------------------------------------
(* Claims about prepare_computer *)

\* The name of the measure key for each source_kw of KwArgs
ExpectedName(source_kw) ==
    CASE source_kw = Kw(S_GDP) -> S_gdp
      [] source_kw = Kw(S_POP) -> S_pop
      [] source_kw = Kw(S_Foo) -> S_foo
      [] OTHER -> S_unknown

\* The four keys of the chain for the last call: raw, aggregated, interpolated, indexed
ChainKeys ==
    LET name == ExpectedName(last.source_kw)
        id == last.source_obj.id
    IN << [name |-> name, dims |-> <<"n", "y">>, tag |-> <<id>>],
          [name |-> name, dims |-> <<"n", "y">>, tag |-> <<id, "agg">>],
          [name |-> name, dims |-> <<"n", "y">>, tag |-> <<>>],
          [name |-> name, dims |-> <<"n", "y">>, tag |-> <<"y0 indexed">>] >>

\* The keys a task of graph depends on
DepsOf(graph, k) == {graph[k].deps[i] : i \in 1..Len(graph[k].deps)}

\* Keys are removed while one of them depends on none of the others: what is
\* left lies on or behind a cycle
RECURSIVE Peel(_, _)
Peel(graph, S) ==
    IF \E k \in S : DepsOf(graph, k) \cap S = {}
    THEN Peel(graph, S \ {CHOOSE k \in S : DepsOf(graph, k) \cap S = {}})
    ELSE S

Acyclic(graph) == Peel(graph, DOMAIN graph) = {}

C5_ReturnsTwoKeys ==
    (last.op = "prepare_computer" /\ last.exc = "None") =>
        /\ Len(last.ret) = 2
        /\ last.ret[1] = [name |-> ExpectedName(last.source_kw),
                          dims |-> <<"n", "y">>, tag |-> <<>>]
        /\ last.ret[2] = [name |-> ExpectedName(last.source_kw),
                          dims |-> <<"n", "y">>, tag |-> <<"y0 indexed">>]
        /\ last.ret[1] \in DOMAIN c /\ last.ret[2] \in DOMAIN c
        /\ c[last.ret[1]].op = "interpolate"
        /\ c[last.ret[2]].op = "index_to"
        /\ c[last.ret[2]].deps = <<last.ret[1], K_y0_coord>>

\* C5 witness: a call for GDP returned the keys gdp:n-y and gdp:n-y:y0 indexed
C5_Witness ==
    /\ last.op = "prepare_computer"
    /\ last.exc = "None"
    /\ last.source_kw = Kw(S_GDP)
    /\ last.ret[1].name = S_gdp

\* C5 witness (second case): a call without a measure returned unknown:n-y
C5_WitnessUnknown ==
    /\ last.op = "prepare_computer"
    /\ last.exc = "None"
    /\ last.source_kw = EmptyDict
    /\ last.ret[1].name = S_unknown

\* The keys the last call adds when it finds a source
KeysToAdd ==
    {K_n_codes, K_n_groups, K_y_coords, K_y0_coord}
    \cup (IF last.source_obj = NoObj THEN {} ELSE {ChainKeys[i] : i \in 1..4})

\* C6: with strict=True prepare_computer raises if any of the keys it is
\* about to add (node codes and groups, the y and y0 coordinates, the raw,
\* aggregated, measure and y0-indexed keys) already exists in c.
C6_StrictRaisesOnExistingKey ==
    (/\ last.op = "prepare_computer"
     /\ last.strict
     /\ KeysToAdd \cap last.before # {}) => last.exc # "None"

\* C7 as claimed: prepare_computer completes only when a measure given in
\* source_kw is one of MEASURES, whatever providers are registered.
C7_CompletesOnlyForMeasures ==
    (/\ last.op = "prepare_computer"
     /\ last.exc = "None"
     /\ "measure" \in DOMAIN last.source_kw) => last.source_kw["measure"] \in {S_GDP, S_POP}

\* C7 amended: a non-empty measure outside MEASURES is only warned about;
\* prepare_computer completes exactly when a registered constructor accepts
\* and no strict add fails, and with such a measure the accepting provider
\* is never DemoSource.
C7_WarnsOnly ==
    last.op = "prepare_computer" =>
        /\ last.warned <=> /\ "measure" \in DOMAIN last.source_kw
                           /\ last.source_kw["measure"] \notin {S_empty, S_GDP, S_POP}
        /\ last.exc = "None" => Accepting(last.source, last.source_kw) # {}
        /\ (/\ last.exc = "None"
            /\ "measure" \in DOMAIN last.source_kw
            /\ last.source_kw["measure"] \notin {S_GDP, S_POP})
              => last.source_obj.cls # "DemoSource"
        /\ (Accepting(last.source, last.source_kw) # {} /\ ~last.strict)
              => last.exc = "None"

\* C7 witness: a call with measure "Foo" logged the warning and completed
\* with the provider AnySource
C7_Witness ==
    /\ last.op = "prepare_computer"
    /\ last.source_kw = Kw(S_Foo)
    /\ last.warned
    /\ last.exc = "None"
    /\ last.source_obj.cls = "AnySource"
    /\ [name |-> S_foo, dims |-> <<"n", "y">>, tag |-> <<>>] \in DOMAIN c

----------------------------------------------------------------------------
(* Claims about DemoSource *)

\* C8: DemoSource(source, source_kw) raises ValueError, and no other
\* exception, when source does not start with "test ", when source_kw has
\* no "measure" and when the measure is neither "POP" nor "GDP"; otherwise
\* the instance has the indexers s = the text after "test " and v =
\* "Population" or "GDP".
C8_CtorRaisesValueError ==
    last.op = "init" =>
        IF \/ ~StartsWith(last.source, S_test_)
           \/ "measure" \notin DOMAIN last.source_kw
           \/ last.source_kw["measure"] \notin {S_POP, S_GDP}
        THEN last.exc = "ValueError"
        ELSE /\ last.exc = "None"
             /\ S_test_ \o last.obj.indexers["s"] = last.source
             /\ last.obj.indexers["v"] =
                   (IF last.source_kw = Kw(S_POP) THEN "Population" ELSE "GDP")

----------------------------------------------------------------------------
(* Claims about cool_tech *)

\* 1 / 0.9: the parent input value at which the cooling fraction is zero
F_ten_ninths == Frac(10, 9)

\* C10 as claimed: for every row that reaches addon_conversion and the
\* input computation with a parent input value >= 1, the cooling fraction
\* value - 0.1 * value - 1 is >= 0, and not zero where value_cool divides by it.
C10_NonNegativeFromOne ==
    results.called =>
        \A i \in 1..Len(results.input_cool) :
            LET r == results.input_cool[i]
            IN FracGeq(r.value, F_one) =>
                  /\ FracGeq(r.cooling_fraction, F_zero)
                  /\ r.cooling_fraction.n # 0

\* C10 amended: for every row that reaches addon_conversion and the input
\* computation the cooling fraction is 0.9 * value - 1, in exact arithmetic;
\* it is >= 0 exactly when value >= 1 / 0.9 and > 0, so that value_cool is
\* finite, exactly when value > 1 / 0.9.
C10_NonNegativeFromTenNinths ==
    results.called =>
        /\ Len(results.addon_conversion) = Len(results.input_cool)
        /\ \A i \in 1..Len(results.input_cool) :
              LET r == results.input_cool[i]
                  a == results.addon_conversion[i]
              IN /\ IsFinite(r.value)
                 /\ r.cooling_fraction.d > 0
                 /\ 10 * r.value.d * r.cooling_fraction.n
                       = (9 * r.value.n - 10 * r.value.d) * r.cooling_fraction.d
                 /\ a.value = r.cooling_fraction
                 /\ FracGeq(r.cooling_fraction, F_zero) <=> FracGeq(r.value, F_ten_ninths)
                 /\ FracGt(r.cooling_fraction, F_zero) <=> FracGt(r.value, F_ten_ninths)
                 /\ FracGt(r.value, F_ten_ninths) => IsFinite(r.value_cool)
        /\ \A j \in 1..Len(results.input) :
              FracGt(results.input[j].divisor, F_zero) => IsFinite(results.input[j].value)

\* C10 witness: a parent technology with input value 2 reached
\* addon_conversion with the cooling fraction 4/5, and a water input was
\* computed from it
C10_Witness ==
    /\ results.called
    /\ \E i \in 1..Len(results.addon_conversion) :
          /\ results.addon_conversion[i].parent_value = Frac(2, 1)
          /\ results.addon_conversion[i].value = Frac(4, 5)
    /\ \E j \in 1..Len(results.input) :
          /\ results.input[j].commodity = "freshwater_supply"
          /\ results.input[j].divisor = Frac(4, 5)


\* C11: after a call of cool_tech, every returned table that is broadcast over
\* vintage years (inv_cost, technical_lifetime when it has rows, output when
\* it is returned) has a year_vtg for every year of the horizon the call was
\* given and for 2010, also when 2010 is not a year of the horizon.
C11_YearsCoverHorizonAnd2010 ==
    results.called =>
        LET years == Range(results.horizon) \cup {2010}
        IN /\ years \subseteq results.inv_cost_years
           /\ results.tl_years # {} => years \subseteq results.tl_years
           /\ results.output_present => years \subseteq results.output_years


\* The rows cool_tech is to emit for the history rows `rows`: one for each
\* cooling technology of hold_cost whose parent technology is that of the
\* row, with historical value * share * cooling fraction in the row's region
HistExpected(hold_cost, rows) ==
    {[node_loc |-> x.node_loc, technology |-> r.technology, year |-> x.year,
      value |-> FracMul(x.value, r.value[x.node_loc])] :
        <<x, r>> \in {p \in Range(rows) \X Range(hold_cost) :
                        ParentTech(p[2].technology) = p[1].technology}}

\* C12: after a call of cool_tech that returns, the historical_activity
\* (resp. historical_new_capacity) rows are exactly, for every history row
\* of a parent technology P in region N, one row for each cooling technology
\* whose parent is P, with value = historical value * share * cooling
\* fraction at N; a cooling technology of another parent whose name begins
\* with P gets no row.
C12_HistoryRowsOfOwnParent ==
    (results.called /\ results.exc = "none") =>
        LET hold_cost == HoldCost(HoldDf(results.input_cool))
        IN /\ {[node_loc |-> r.node_loc, technology |-> r.technology,
                year |-> r.year_act, value |-> r.value] :
                    r \in Range(results.historical_activity)}
                = HistExpected(hold_cost, scen_hist.act)
           /\ {[node_loc |-> r.node_loc, technology |-> r.technology,
                year |-> r.year_vtg, value |-> r.value] :
                    r \in Range(results.historical_new_capacity)}
                = HistExpected(hold_cost, scen_hist.cap)


\* A row of the scenario's "input" of a heat plant that the filters on value
\* and on level let through
HeatPlantInput(r) ==
    /\ Contains(r.technology, S_hpl)
    /\ r.technology \in ParentTechs
    /\ r.level \notin {"water_supply", "cooling"}

====
